---- MODULE Spec2Model ----
(***************************************************************************)
(* Door pricing engine (pricing_logic.py over the tables of               *)
(* pricing_data.py).                                                       *)
(*                                                                         *)
(* Numbers.  Python computes in binary floating point and rounds with     *)
(* round(x, n).  The model computes the same quantities exactly, in       *)
(* fixed point, and rounds half-to-even as round() does:                  *)
(*   lengths       tenths of a millimetre        (2133.6 mm = 21336)      *)
(*   areas         ten-thousandths of a sqft     (round(.., 4))           *)
(*   rates, money  paise, hundredths of a rupee  (round(.., 2))           *)
(*   unrounded sums of money: a pair <<c, f>>, c paise plus f             *)
(*                 ten-thousandths of a paisa, 0 <= f < 10000.            *)
(* TLC's integers are 32 bits wide, so products that would not fit are    *)
(* formed by MulDiv, digit by digit.                                       *)
(***************************************************************************)
EXTENDS Integers, Sequences, FiniteSets, TLC

VARIABLES
    CONSTANTS_,            \* pricing_data.CONSTANTS (module-level dict)
    MATERIAL_BASE_RATES,   \* pricing_data.MATERIAL_BASE_RATES
    CORE_SURCHARGES,       \* pricing_data.CORE_SURCHARGES
    LAMINATE_RATES,        \* pricing_data.LAMINATE_RATES
    VENEER_RATES,          \* pricing_data.VENEER_RATES
    VISION_HOLE_FEES,      \* pricing_data.VISION_HOLE_FEES
    ADDON_SQFT_RATES,      \* pricing_data.ADDON_SQFT_RATES
    req,                   \* the call being made: function and arguments
    out,                   \* what the call returned or raised, with its locals
    diag,                  \* lines printed on the diagnostic channel by the call
    saved                  \* an earlier call and its outcome, kept by the caller

tables == <<CONSTANTS_, MATERIAL_BASE_RATES, CORE_SURCHARGES, LAMINATE_RATES,
            VENEER_RATES, VISION_HOLE_FEES, ADDON_SQFT_RATES>>

vars == <<CONSTANTS_, MATERIAL_BASE_RATES, CORE_SURCHARGES, LAMINATE_RATES,
          VENEER_RATES, VISION_HOLE_FEES, ADDON_SQFT_RATES, req, out, diag, saved>>

----------------------------------------------------------------------------
(* Units of the fixed-point representation.                                *)

\* tenths of a millimetre per millimetre: the sample door is 2133.6 x 914.4 mm
MmScale == 10

\* ten-thousandths of a square foot: areas are rounded to 4 decimal places
AreaScale == 10000

\* paise per rupee: rates and costs are rounded to 2 decimal places
MoneyScale == 100

----------------------------------------------------------------------------
(* Exact arithmetic.                                                       *)

\* one step of long multiplication in base 100: from h = <<q, r>> for
\* a \div 100 to <<q, r>> for a, where t = 100 * r + (a % 100) * b
MulDivCarry(q, t, d) == <<100 * q + (t \div d), t % d>>

MulDivStep(h, lo, b, d) == MulDivCarry(h[1], 100 * h[2] + lo * b, d)

\* <<q, r>> with a * b = q * d + r and 0 <= r < d, for a >= 0 and d > 0,
\* by long multiplication over the base-100 digits of a, so that no
\* intermediate exceeds 100 * (d + b)
RECURSIVE MulDiv(_, _, _)
MulDiv(a, b, d) ==
    IF a = 0 THEN <<0, 0>>
    ELSE MulDivStep(MulDiv(a \div 100, b, d), a % 100, b, d)

\* Python round(): the integer nearest to q + r/d, halves to the even one.
RoundHalfEven(q, r, d) ==
    IF 2 * r < d THEN q
    ELSE IF 2 * r > d THEN q + 1
    ELSE IF q % 2 = 0 THEN q ELSE q + 1

\* round(a * b / d)
RoundPair(m, d) == RoundHalfEven(m[1], m[2], d)

RoundMulDiv(a, b, d) == RoundPair(MulDiv(a, b, d), d)

\* An unrounded amount of money: c paise and f ten-thousandths of a paisa.
Money(c, f) == <<c + (f \div AreaScale), f % AreaScale>>

\* total += x
AddMoney(x, y) == Money(x[1] + y[1], x[2] + y[2])

\* round(x, 2) of an unrounded amount, in paise
RoundMoney(x) == RoundHalfEven(x[1], x[2], AreaScale)

Max(a, b) == IF a >= b THEN a ELSE b

----------------------------------------------------------------------------
(* Python strings that the code takes apart (add-on options, lookup keys)  *)
(* are sequences of tokens: words, " ", "(", ")" and "_".  Two words are   *)
(* never adjacent, so equal strings are equal sequences.                   *)

\* dict.get(key) found something: key in d
Has(d, k) == k \in DOMAIN d

\* mutant of DictAfterGet: d.pop(k, None) in place of d.get(k)
DictAfterPop(d, k) == [j \in DOMAIN d \ {k} |-> d[j]]

\* the dict after d.get(k): get only reads, it neither inserts nor removes
DictAfterGet(d, k) == d

\* str.lower() of a word
LowerWord(w) ==
    CASE w = "None" -> "none"
      [] w = "NONE" -> "none"
      [] w = "Yes"  -> "yes"
      [] w = "YES"  -> "yes"
      [] w = "No"   -> "no"
      [] OTHER      -> w

\* str.lower()
Lower(s) == [i \in 1..Len(s) |-> LowerWord(s[i])]

\* '_'.join(s.split()): runs of whitespace become one "_", leading and
\* trailing whitespace goes
RECURSIVE JoinSplit(_, _, _)
JoinSplit(s, acc, pending) ==
    IF s = <<>> THEN acc
    ELSE IF Head(s) = " "
         THEN JoinSplit(Tail(s), acc, acc # <<>>)
         ELSE JoinSplit(Tail(s),
                        (IF pending THEN Append(acc, "_") ELSE acc) \o <<Head(s)>>,
                        FALSE)

\* s.replace(ch, '')
Remove(s, ch) == SelectSeq(s, LAMBDA t : t # ch)

----------------------------------------------------------------------------
(* pricing_data.py                                                         *)

CONSTANTS_0 ==
    [ BASE_THICKNESS_MM        |-> 30,
      THICKNESS_SURCHARGE_RATE |-> 325,        \* 3.25 INR/sqft/mm
      DOUBLE_LEAF_FACTOR       |-> 16,         \* 0.16, in hundredths
      EDGE_BANDING_RATE        |-> 5000,       \* 50.00 INR/sqft
      SQMM_TO_SQFT             |-> 9290304 ]   \* 92903.04 mm2, in hundredths

MATERIAL_BASE_RATES_0 ==
    (<<"Hardwood", "Hardwood">> :> 14400) @@
    (<<"Pinewood (S.Y.P)", "Ecolax Board">> :> 14400) @@
    (<<"Hardwood", "Ecolax Board">> :> 13100) @@
    (<<"Hardwood", "Pinewood (S.Y.P)">> :> 16500) @@
    (<<"Pinewood (S.Y.P)", "Hardwood">> :> 15600) @@
    (<<"Pinewood (S.Y.P)", "Pinewood (S.Y.P)">> :> 17500)

CORE_SURCHARGES_0 ==
    ("Double Core" :> 900) @@ ("Core + HDF" :> 1800)

LAMINATE_RATES_0 ==
    ("Wenge walnut shade 0.8mm" :> 325000) @@
    ("Wenge walnut shade 1mm" :> 425000) @@
    ("Black walnut shade with 3 lines" :> 512500)

VENEER_RATES_0 ==
    ("Smoke Oak Veneer" :> 9000) @@
    ("Teak Veneer - plain" :> 5500) @@
    ("Teak Veneer - design1" :> 6800)

VISION_HOLE_FEES_0 ==
    << [T_min |-> 30, T_max |-> 35, F_VH |-> 4500],
       [T_min |-> 36, T_max |-> 50, F_VH |-> 6500] >>

ADDON_SQFT_RATES_0 ==
    (<<"Coating", "_", "Resin", "_", "Coated", "_", "One", "_", "Side">> :> 8000) @@
    (<<"Coating", "_", "Resin", "_", "Coated", "_", "Both", "_", "Sides">> :> 18000) @@
    (<<"Grooving", "_", "One", "_", "Side">> :> 1200) @@
    (<<"Grooving", "_", "Both", "_", "Sides">> :> 2200) @@
    (<<"Routing", "_", "One", "_", "Side">> :> 1500) @@
    (<<"Routing", "_", "Both", "_", "Sides">> :> 2800)

----------------------------------------------------------------------------
(* pricing_logic.py: geometry                                              *)

\* mutant of calculate_area_sqft: the factor is left out
calculate_area_sqft_factor_dropped(L_mm, W_mm, factor) ==
    RoundMulDiv(L_mm * W_mm, AreaScale, CONSTANTS_["SQMM_TO_SQFT"])

\* round(L_mm * W_mm / conversion * factor, 4)
calculate_area_sqft(L_mm, W_mm, factor) ==
    RoundMulDiv(L_mm * W_mm, factor * AreaScale, CONSTANTS_["SQMM_TO_SQFT"])

\* round(2 * (L_mm + W_mm) * T_mm / conversion, 4)
calculate_edge_area_sqft(L_mm, W_mm, T_mm) ==
    LET perimeter_mm == 2 * (L_mm + W_mm)
    IN  RoundMulDiv(perimeter_mm * T_mm, AreaScale, CONSTANTS_["SQMM_TO_SQFT"])

----------------------------------------------------------------------------
(* pricing_logic.py: skeleton pricer                                       *)

\* mutant of thickness_increase: T_mm - T_base without max(0, ..)
thickness_increase_unclamped(T_mm) ==
    T_mm - CONSTANTS_["BASE_THICKNESS_MM"] * MmScale

\* thickness_increase = max(0, T_mm - T_base), in tenths of a millimetre
thickness_increase(T_mm) ==
    Max(0, T_mm - CONSTANTS_["BASE_THICKNESS_MM"] * MmScale)

\* mutant of thickness_surcharge: charged on the whole thickness
thickness_surcharge_from_zero(T_mm) ==
    T_mm * CONSTANTS_["THICKNESS_SURCHARGE_RATE"]

\* thickness_surcharge = thickness_increase * S_inc, in thousandths of a rupee
thickness_surcharge(T_mm) ==
    thickness_increase(T_mm) * CONSTANTS_["THICKNESS_SURCHARGE_RATE"]

\* mutant of core_surcharge: "Double Core" still charged in the second tier
core_surcharge_double_core_kept(T_mm, core_option) ==
    IF T_mm <= 35 * MmScale \/ T_mm >= 36 * MmScale
    THEN IF core_option = "Double Core" THEN CORE_SURCHARGES["Double Core"]
         ELSE IF core_option = "Core + HDF"
         THEN IF T_mm <= 35 * MmScale
              THEN CORE_SURCHARGES["Core + HDF"]
              ELSE CORE_SURCHARGES["Core + HDF"] - CORE_SURCHARGES["Double Core"]
         ELSE 0
    ELSE 0

\* mutant of core_surcharge: "Core + HDF" charged in full in the second tier
core_surcharge_full_hdf(T_mm, core_option) ==
    IF T_mm <= 35 * MmScale
    THEN IF core_option = "Double Core" THEN CORE_SURCHARGES["Double Core"]
         ELSE IF core_option = "Core + HDF" THEN CORE_SURCHARGES["Core + HDF"]
         ELSE 0
    ELSE IF T_mm >= 36 * MmScale /\ core_option = "Core + HDF"
    THEN CORE_SURCHARGES["Core + HDF"]
    ELSE 0

\* 3. Conditional Core Surcharge: what the if/elif adds to PSF_rate, in paise
core_surcharge(T_mm, core_option) ==
    IF T_mm <= 35 * MmScale
    THEN IF core_option = "Double Core" THEN CORE_SURCHARGES["Double Core"]
         ELSE IF core_option = "Core + HDF" THEN CORE_SURCHARGES["Core + HDF"]
         ELSE 0
    ELSE IF T_mm >= 36 * MmScale
    THEN IF core_option = "Core + HDF"
         THEN LET h_df_cost == CORE_SURCHARGES["Core + HDF"]
                  dc_cost == CORE_SURCHARGES["Double Core"]
              IN  h_df_cost - dc_cost
         ELSE 0
    ELSE 0

\* mutant of material_lookup: MATERIAL_BASE_RATES.get(material_key, 0)
material_lookup_default_zero(rails_material, filler_material) ==
    LET material_key == <<rails_material, filler_material>>
    IN  [raised |-> FALSE,
         value |-> IF Has(MATERIAL_BASE_RATES, material_key)
                   THEN MATERIAL_BASE_RATES[material_key] ELSE 0]

\* R_base = MATERIAL_BASE_RATES.get(material_key); None raises ValueError
material_lookup(rails_material, filler_material) ==
    LET material_key == <<rails_material, filler_material>>
    IN  IF Has(MATERIAL_BASE_RATES, material_key)
        THEN [raised |-> FALSE, value |-> MATERIAL_BASE_RATES[material_key]]
        ELSE [raised |-> TRUE, error |-> "ValueError"]

\* the rounded PSF rate in paise, or the ValueError of the material lookup
get_psf_rate(rails_material, filler_material, T_mm, core_option) ==
    LET R_base == material_lookup(rails_material, filler_material)
    IN  IF R_base.raised THEN R_base
        ELSE LET PSF_rate == R_base.value * MmScale + thickness_surcharge(T_mm)
                             + core_surcharge(T_mm, core_option) * MmScale
             IN  [raised |-> FALSE,
                  value |-> RoundHalfEven(PSF_rate \div MmScale, PSF_rate % MmScale, MmScale)]

\* round(area_1x * psf_rate, 2); the ValueError propagates
calculate_skeleton_cost(L_mm, W_mm, T_mm, rails, filler, core_option) ==
    LET psf_rate == get_psf_rate(rails, filler, T_mm, core_option)
    IN  IF psf_rate.raised THEN psf_rate
        ELSE LET area_1x == calculate_area_sqft(L_mm, W_mm, 1)
             IN  [raised |-> FALSE,
                  value |-> RoundMulDiv(area_1x, psf_rate.value, AreaScale)]

----------------------------------------------------------------------------
(* pricing_logic.py: finish pricer                                         *)

\* mutant of calculate_finish_cost: else in place of elif door_type == "Veneer"
calculate_finish_cost_else_veneer(L_mm, W_mm, door_type, finish_option) ==
    IF door_type = "Laminate"
    THEN IF Has(LAMINATE_RATES, finish_option) THEN LAMINATE_RATES[finish_option] ELSE 0
    ELSE IF Has(VENEER_RATES, finish_option)
    THEN LET area_2x == calculate_area_sqft(L_mm, W_mm, 2)
         IN  RoundMulDiv(area_2x, VENEER_RATES[finish_option], AreaScale)
    ELSE 0

calculate_finish_cost(L_mm, W_mm, door_type, finish_option) ==
    IF door_type = "Laminate"
    THEN IF Has(LAMINATE_RATES, finish_option) THEN LAMINATE_RATES[finish_option] ELSE 0
    ELSE IF door_type = "Veneer" /\ Has(VENEER_RATES, finish_option)
    THEN LET area_2x == calculate_area_sqft(L_mm, W_mm, 2)
         IN  RoundMulDiv(area_2x, VENEER_RATES[finish_option], AreaScale)
    ELSE 0

----------------------------------------------------------------------------
(* pricing_logic.py: add-on pricer                                         *)

\* add_ons.get(key, default)
Get(d, k, default) == IF Has(d, k) THEN d[k] ELSE default

\* 1. Double Leaf Surcharge: skeleton_cost * DOUBLE_LEAF_FACTOR, unrounded
double_leaf_term(skeleton_cost, add_ons) ==
    IF Lower(Get(add_ons, "double_leaf", <<"no">>)) = <<"yes">>
    THEN LET m == MulDiv(skeleton_cost, CONSTANTS_["DOUBLE_LEAF_FACTOR"], MoneyScale)
         IN  Money(m[1], m[2] * (AreaScale \div MoneyScale))
    ELSE Money(0, 0)

\* next((f["F_VH"] for f in VISION_HOLE_FEES if T_min <= T_mm <= T_max), 0.0)
RECURSIVE first_bracket_fee(_, _)
first_bracket_fee(fees, T_mm) ==
    IF fees = <<>> THEN 0
    ELSE IF Head(fees).T_min * MmScale <= T_mm /\ T_mm <= Head(fees).T_max * MmScale
         THEN Head(fees).F_VH
         ELSE first_bracket_fee(Tail(fees), T_mm)

\* 2. Vision Hole
vision_hole_term(T_mm, add_ons) ==
    IF Lower(Get(add_ons, "vision_hole", <<"no">>)) = <<"yes">>
    THEN Money(first_bracket_fee(VISION_HOLE_FEES, T_mm), 0)
    ELSE Money(0, 0)

\* mutant of edge_banding_term: add_ons.get('edge_banding', 'no')
edge_banding_term_default_no(L_mm, W_mm, T_mm, add_ons) ==
    IF Lower(Get(add_ons, "edge_banding", <<"no">>)) = <<"yes">>
    THEN LET edge_area_sqft == calculate_edge_area_sqft(L_mm, W_mm, T_mm)
             m == MulDiv(edge_area_sqft, CONSTANTS_["EDGE_BANDING_RATE"], AreaScale)
         IN  Money(m[1], m[2])
    ELSE Money(0, 0)

\* 3. Edge Banding: edge_area_sqft * EDGE_BANDING_RATE, unrounded
edge_banding_term(L_mm, W_mm, T_mm, add_ons) ==
    IF Lower(Get(add_ons, "edge_banding", <<"yes">>)) = <<"yes">>
    THEN LET edge_area_sqft == calculate_edge_area_sqft(L_mm, W_mm, T_mm)
             m == MulDiv(edge_area_sqft, CONSTANTS_["EDGE_BANDING_RATE"], AreaScale)
         IN  Money(m[1], m[2])
    ELSE Money(0, 0)

\* area_addons_map, in the order the loop walks it
area_addons_map ==
    << <<"coating", "Coating">>, <<"grooving", "Grooving">>, <<"routing", "Routing">> >>

\* f"{prefix}_{'_'.join(option.split()).replace('(', '').replace(')', '')}"
lookup_key(prefix, option) ==
    <<prefix, "_">> \o Remove(Remove(JoinSplit(option, <<>>, FALSE), "("), ")")

\* one pass of the loop body for area_addons_map[i]: [selected, key, found, term]
area_addon(i, area_1x_sqft, add_ons) ==
    LET option == Get(add_ons, area_addons_map[i][1], <<"none">>)
        key == lookup_key(area_addons_map[i][2], option)
        selected == Lower(option) # <<"none">>
        found == Has(ADDON_SQFT_RATES, key) /\ ADDON_SQFT_RATES[key] # 0
    IN  [selected |-> selected,
         key |-> key,
         found |-> selected /\ found,
         term |-> IF selected /\ found
                  THEN LET m == MulDiv(area_1x_sqft, ADDON_SQFT_RATES[key], AreaScale)
                       IN  Money(m[1], m[2])
                  ELSE Money(0, 0)]

\* mutant of area_addons_loop: break after the first key without a rate
RECURSIVE area_addons_loop_break(_, _, _, _, _)
area_addons_loop_break(i, area_1x_sqft, add_ons, total, printed) ==
    IF i > Len(area_addons_map) THEN [total |-> total, printed |-> printed]
    ELSE LET a == area_addon(i, area_1x_sqft, add_ons)
         IN  IF a.selected /\ ~a.found
             THEN [total |-> total, printed |-> Append(printed, a.key)]
             ELSE area_addons_loop_break(i + 1, area_1x_sqft, add_ons,
                                         AddMoney(total, a.term), printed)

\* 4. the loop from entry i on: total_addon_cost and the lines printed
RECURSIVE area_addons_loop(_, _, _, _, _)
area_addons_loop(i, area_1x_sqft, add_ons, total, printed) ==
    IF i > Len(area_addons_map) THEN [total |-> total, printed |-> printed]
    ELSE LET a == area_addon(i, area_1x_sqft, add_ons)
         IN  area_addons_loop(i + 1, area_1x_sqft, add_ons,
                              AddMoney(total, a.term),
                              IF a.selected /\ ~a.found
                              THEN Append(printed, a.key) ELSE printed)

\* mutant of calculate_addon_cost: the double leaf percentage is taken last,
\* of the skeleton cost plus the add-ons accumulated so far
calculate_addon_cost_leaf_on_running_total(L_mm, W_mm, T_mm, skeleton_cost, add_ons) ==
    LET area_1x_sqft == calculate_area_sqft(L_mm, W_mm, 1)
        t2 == AddMoney(Money(0, 0), vision_hole_term(T_mm, add_ons))
        t3 == AddMoney(t2, edge_banding_term(L_mm, W_mm, T_mm, add_ons))
        r  == area_addons_loop(1, area_1x_sqft, add_ons, t3, <<>>)
        t  == AddMoney(r.total, double_leaf_term(skeleton_cost + RoundMoney(r.total), add_ons))
    IN  [value |-> RoundMoney(t), unrounded |-> t, printed |-> r.printed]

\* [value: round(total_addon_cost, 2), unrounded: total_addon_cost, printed]
calculate_addon_cost(L_mm, W_mm, T_mm, skeleton_cost, add_ons) ==
    LET area_1x_sqft == calculate_area_sqft(L_mm, W_mm, 1)
        t1 == AddMoney(Money(0, 0), double_leaf_term(skeleton_cost, add_ons))
        t2 == AddMoney(t1, vision_hole_term(T_mm, add_ons))
        t3 == AddMoney(t2, edge_banding_term(L_mm, W_mm, T_mm, add_ons))
        r  == area_addons_loop(1, area_1x_sqft, add_ons, t3, <<>>)
    IN  [value |-> RoundMoney(r.total), unrounded |-> r.total, printed |-> r.printed]

----------------------------------------------------------------------------
(* pricing_logic.py: orchestrator                                          *)

\* mutant of total_price_sum: the add-on cost is left out of the total
total_price_sum_without_addon(skeleton_cost, finish_cost, addon_cost) ==
    skeleton_cost + finish_cost

\* total_price = skeleton_cost + finish_cost + addon_cost, before round(.., 2)
total_price_sum(skeleton_cost, finish_cost, addon_cost) ==
    skeleton_cost + finish_cost + addon_cost

\* [ret: the breakdown returned or the error raised, printed: the lines printed]
calculate_total_price(L_mm, W_mm, T_mm, rails, filler, core_option, door_type, finish_option, add_ons) ==
    LET skeleton_cost == calculate_skeleton_cost(L_mm, W_mm, T_mm, rails, filler, core_option)
    IN  IF skeleton_cost.raised
        THEN [ret |-> skeleton_cost, printed |-> <<>>]
        ELSE LET finish_cost == calculate_finish_cost(L_mm, W_mm, door_type, finish_option)
                 addon == calculate_addon_cost(L_mm, W_mm, T_mm, skeleton_cost.value, add_ons)
                 total_price == total_price_sum(skeleton_cost.value, finish_cost, addon.value)
             IN  [ret |-> [raised |-> FALSE,
                           skeleton_cost |-> skeleton_cost.value,
                           finish_cost |-> finish_cost,
                           addon_cost |-> addon.value,
                           total_price |-> RoundHalfEven(total_price, 0, MoneyScale)],
                  printed |-> addon.printed]

----------------------------------------------------------------------------
(* The callers' inputs.                                                    *)

\* thicknesses of rate calls run in half millimetres from 25.0 mm up to
\* MaxHalfMm half millimetres
MaxHalfMm == 104

\* face dimensions of area calls: MaxSteps steps above the smallest door
MaxSteps == 5

Materials == {"Hardwood", "Pinewood (S.Y.P)", "Ecolax Board"}

CoreOptions == {"None", "Double Core", "Core + HDF"}

\* thickness in tenths of a millimetre
RateThicknesses == {5 * k : k \in 50..MaxHalfMm}

RateRequests ==
    {[fn |-> "get_psf_rate", rails |-> ra, filler |-> fi, T_mm |-> t, core_option |-> co] :
        ra \in Materials, fi \in Materials, t \in RateThicknesses, co \in CoreOptions}

AreaLengths == {19000 + 336 * k : k \in 0..MaxSteps + 2}

AreaWidths == {7000 + 429 * k : k \in 0..MaxSteps}

AreaRequests ==
    {[fn |-> "calculate_area_sqft", L_mm |-> l, W_mm |-> w] :
        l \in AreaLengths, w \in AreaWidths}

\* quotes: <<L, W, T>> of a 2133.6 x 914.4 door (the face of the __main__
\* sample) and of a 1950 x 750 door, at thicknesses at the base, between the
\* two core tiers and above them
QuoteDoors ==
    {<<21336, 9144, 355>>, <<21336, 9144, 360>>, <<19500, 7500, 300>>, <<19500, 7500, 400>>}

\* two priced pairs and one that MATERIAL_BASE_RATES does not list
QuoteMaterials ==
    {<<"Hardwood", "Ecolax Board">>, <<"Hardwood", "Hardwood">>, <<"Ecolax Board", "Hardwood">>}

QuoteCores == {"None", "Core + HDF"}

\* door type and finish: priced, unlisted, listed for the other door type,
\* and a door type that is neither Laminate nor Veneer
QuoteFinishes ==
    {<<"Laminate", "Wenge walnut shade 1mm">>, <<"Laminate", "Smoke Oak Veneer">>,
     <<"Veneer", "Smoke Oak Veneer">>, <<"Veneer", "Unlisted">>,
     <<"Flush", "Smoke Oak Veneer">>}

\* the add_ons dicts: every key may be missing
AddOnDicts ==
    LET pick(k, vs) == {<<>>} \cup {(k :> v) : v \in vs}
    IN  {a @@ b @@ c @@ d @@ e @@ f :
            a \in pick("double_leaf", {<<"yes">>}),
            b \in pick("vision_hole", {<<"Yes">>}),
            c \in pick("edge_banding", {<<"yes">>, <<"no">>}),
            d \in pick("coating", {<<"Resin", " ", "Coated", " ", "(", "Both", " ", "Sides", ")">>,
                                   <<"Matte">>}),
            e \in pick("grooving", {<<"Both", " ", "Sides">>}),
            f \in pick("routing", {<<"None">>, <<"One", " ", " ", "Side">>})}

QuoteRequests ==
    {[fn |-> "calculate_total_price", L_mm |-> lw[1], W_mm |-> lw[2], T_mm |-> lw[3],
      rails |-> m[1], filler |-> m[2], core_option |-> co,
      door_type |-> df[1], finish_option |-> df[2], add_ons |-> ao] :
        lw \in QuoteDoors, m \in QuoteMaterials,
        co \in QuoteCores, df \in QuoteFinishes, ao \in AddOnDicts}

\* the call of the __main__ block
SampleRequest ==
    [fn |-> "calculate_total_price", L_mm |-> 21336, W_mm |-> 9144, T_mm |-> 400,
     rails |-> "Hardwood", filler |-> "Ecolax Board", core_option |-> "Core + HDF",
     door_type |-> "Veneer", finish_option |-> "Smoke Oak Veneer",
     add_ons |-> ("double_leaf" :> <<"no">>) @@ ("vision_hole" :> <<"yes">>) @@
                 ("edge_banding" :> <<"yes">>) @@
                 ("coating" :> <<"Resin", " ", "Coated", " ", "(", "Both", " ", "Sides", ")">>) @@
                 ("grooving" :> <<"Both", " ", "Sides">>) @@
                 ("routing" :> <<"none">>)]

Pending == [fn |-> "pending"]

None == [fn |-> "none"]

----------------------------------------------------------------------------
(* The state machine: a caller makes one call of the module.               *)

TablesInit ==
    /\ CONSTANTS_ = CONSTANTS_0
    /\ MATERIAL_BASE_RATES = MATERIAL_BASE_RATES_0
    /\ CORE_SURCHARGES = CORE_SURCHARGES_0
    /\ LAMINATE_RATES = LAMINATE_RATES_0
    /\ VENEER_RATES = VENEER_RATES_0
    /\ VISION_HOLE_FEES = VISION_HOLE_FEES_0
    /\ ADDON_SQFT_RATES = ADDON_SQFT_RATES_0

Init ==
    /\ TablesInit
    /\ req \in QuoteRequests \cup {SampleRequest} \cup RateRequests \cup AreaRequests
    /\ out = Pending
    /\ diag = <<>>
    /\ saved = None

\* calculate_total_price(...) runs to its return or its raise
Quote ==
    /\ req.fn = "calculate_total_price"
    /\ out = Pending
    /\ LET r == calculate_total_price(req.L_mm, req.W_mm, req.T_mm, req.rails, req.filler,
                                      req.core_option, req.door_type, req.finish_option,
                                      req.add_ons)
       IN  /\ out' = r.ret
           /\ diag' = diag \o r.printed
    /\ MATERIAL_BASE_RATES' = DictAfterGet(MATERIAL_BASE_RATES, <<req.rails, req.filler>>)
    /\ UNCHANGED <<CONSTANTS_, CORE_SURCHARGES, LAMINATE_RATES, VENEER_RATES,
                   VISION_HOLE_FEES, ADDON_SQFT_RATES, req, saved>>

\* get_psf_rate(...) called on its own
Rate ==
    /\ req.fn = "get_psf_rate"
    /\ out = Pending
    /\ out' = get_psf_rate(req.rails, req.filler, req.T_mm, req.core_option)
    /\ MATERIAL_BASE_RATES' = DictAfterGet(MATERIAL_BASE_RATES, <<req.rails, req.filler>>)
    /\ UNCHANGED <<CONSTANTS_, CORE_SURCHARGES, LAMINATE_RATES, VENEER_RATES,
                   VISION_HOLE_FEES, ADDON_SQFT_RATES, req, diag, saved>>

\* calculate_area_sqft(L, W) and calculate_area_sqft(L, W, factor=2)
Area ==
    /\ req.fn = "calculate_area_sqft"
    /\ out = Pending
    /\ out' = [raised |-> FALSE,
               one |-> calculate_area_sqft(req.L_mm, req.W_mm, 1),
               two |-> calculate_area_sqft(req.L_mm, req.W_mm, 2)]
    /\ UNCHANGED <<tables, req, diag, saved>>

Next == Quote \/ Rate \/ Area

Spec == Init /\ [][Next]_vars

----------------------------------------------------------------------------
(* A caller that makes call after call, and keeps one earlier call and its *)
(* outcome to compare later ones with.                                     *)

\* calls counted after the kept one, up to MaxBetween
MaxBetween == 2

RepeatRequests ==
    {[fn |-> "calculate_total_price", L_mm |-> 19500, W_mm |-> 7500, T_mm |-> 400,
      rails |-> m[1], filler |-> m[2], core_option |-> "Core + HDF",
      door_type |-> "Veneer", finish_option |-> "Smoke Oak Veneer", add_ons |-> ao] :
        m \in {<<"Hardwood", "Hardwood">>, <<"Ecolax Board", "Hardwood">>},
        ao \in {<<>>,
                ("coating" :> <<"Matte">>),
                ("vision_hole" :> <<"Yes">>) @@ ("grooving" :> <<"Both", " ", "Sides">>)}}
    \cup {SampleRequest}
    \cup {[fn |-> "get_psf_rate", rails |-> "Hardwood", filler |-> fi, T_mm |-> t,
           core_option |-> "Core + HDF"] :
            fi \in {"Hardwood", "Ecolax Board"}, t \in {350, 360}}
    \cup {[fn |-> "calculate_area_sqft", L_mm |-> 19000, W_mm |-> 7000]}

InitRepeat ==
    /\ TablesInit
    /\ req \in RepeatRequests
    /\ out = Pending
    /\ diag = <<>>
    /\ saved = None

\* the caller sets up its next call
NewCall ==
    /\ out # Pending
    /\ req' \in RepeatRequests
    /\ out' = Pending
    /\ diag' = <<>>
    /\ saved' = IF saved = None THEN saved
                ELSE [saved EXCEPT !.between = IF @ < MaxBetween THEN @ + 1 ELSE @]
    /\ UNCHANGED tables

\* the caller keeps the call just made and what came of it
Remember ==
    /\ out # Pending
    /\ saved = None
    /\ saved' = [req |-> req, out |-> out, diag |-> diag, between |-> 0]
    /\ UNCHANGED <<tables, req, out, diag>>

NextRepeat == NewCall \/ Remember \/ Quote \/ Rate \/ Area

SpecRepeat == InitRepeat /\ [][NextRepeat]_vars

----------------------------------------------------------------------------
(* Properties.                                                             *)

Returned(fn) == req.fn = fn /\ out # Pending /\ ~out.raised

KnownPair == <<req.rails, req.filler>> \in DOMAIN MATERIAL_BASE_RATES

\* the breakdown the same quote would get with some of its arguments changed
QuoteWith(door_type, finish_option, add_ons) ==
    calculate_total_price(req.L_mm, req.W_mm, req.T_mm, req.rails, req.filler,
                          req.core_option, door_type, finish_option, add_ons).ret

\* C1: whenever calculate_total_price returns a breakdown, its total_price is
\* round(skeleton_cost + finish_cost + addon_cost, 2) of the three costs in
\* the same breakdown.
C1_TotalIsRoundedSum ==
    Returned("calculate_total_price") =>
        out.total_price =
            RoundHalfEven(out.skeleton_cost + out.finish_cost + out.addon_cost, 0, MoneyScale)

\* a returned breakdown in which all three component costs are positive
C1_Witness ==
    /\ Returned("calculate_total_price")
    /\ out.skeleton_cost > 0 /\ out.finish_cost > 0 /\ out.addon_cost > 0

\* C2: when (rails, filler) is not a key of MATERIAL_BASE_RATES,
\* calculate_total_price raises ValueError and returns no breakdown: no cost
\* field at all, for every thickness, core, door type, finish and add-ons.
C2_UnknownMaterialRaises ==
    (req.fn = "calculate_total_price" /\ out # Pending /\ ~KnownPair) =>
        out = [raised |-> TRUE, error |-> "ValueError"]

\* a finished quote for an unlisted pair, with a priced finish and add-ons chosen
C2_Witness ==
    /\ req.fn = "calculate_total_price" /\ out # Pending /\ ~KnownPair
    /\ out.raised
    /\ req.door_type = "Veneer" /\ req.finish_option \in DOMAIN VENEER_RATES
    /\ Has(req.add_ons, "coating") /\ Has(req.add_ons, "double_leaf")

\* the finish is not priced for the door type of the request
UnpricedFinish ==
    \/ req.door_type = "Laminate" /\ req.finish_option \notin DOMAIN LAMINATE_RATES
    \/ req.door_type = "Veneer" /\ req.finish_option \notin DOMAIN VENEER_RATES
    \/ req.door_type \notin {"Laminate", "Veneer"}

\* C3: for a known material pair, a finish option missing from the rate map
\* of the door type, or a door type that is neither Laminate nor Veneer,
\* gives a breakdown with finish_cost 0 and no error, whose skeleton and
\* add-on costs are those of the same door with a priced finish.
C3_UnpricedFinishIsFree ==
    (req.fn = "calculate_total_price" /\ out # Pending /\ KnownPair /\ UnpricedFinish) =>
        /\ ~out.raised
        /\ out.finish_cost = 0
        /\ \A df \in {<<"Veneer", "Smoke Oak Veneer">>, <<"Laminate", "Wenge walnut shade 1mm">>} :
              LET priced == QuoteWith(df[1], df[2], req.add_ons)
              IN  /\ priced.finish_cost > 0
                  /\ out.skeleton_cost = priced.skeleton_cost
                  /\ out.addon_cost = priced.addon_cost

\* a breakdown for a door type that is neither Laminate nor Veneer
C3_Witness ==
    /\ Returned("calculate_total_price")
    /\ req.door_type = "Flush" /\ req.finish_option \in DOMAIN VENEER_RATES
    /\ out.finish_cost = 0 /\ out.addon_cost > 0

\* C4 as stated: the area with side factor 2 is exactly twice the area with
\* side factor 1, each as returned after its rounding to 4 decimal places.
C4_AreaDoublesExactly ==
    Returned("calculate_area_sqft") => out.two = 2 * out.one

\* C4 amended: each area is rounded on its own, so the area with side factor
\* 2 differs from twice the area with side factor 1 by at most 0.0001 sqft.
C4_AreaDoublesWithinOneUnit ==
    Returned("calculate_area_sqft") =>
        /\ out.two - 2 * out.one <= 1
        /\ 2 * out.one - out.two <= 1

\* a door whose doubled area is not twice its rounded single area
C4_Witness ==
    Returned("calculate_area_sqft") /\ out.two # 2 * out.one

\* the "Core + HDF" rate at 36 mm for a priced pair
HdfAt36 ==
    /\ Returned("get_psf_rate")
    /\ req.T_mm = 36 * MmScale /\ req.core_option = "Core + HDF"

\* get_psf_rate for the pair of the request, at 35 mm with "Double Core"
DoubleCoreAt35 ==
    get_psf_rate(req.rails, req.filler, 35 * MmScale, "Double Core").value

Differential == CORE_SURCHARGES["Core + HDF"] - CORE_SURCHARGES["Double Core"]

\* C5 as stated: the rate for "Core + HDF" at 36 mm is the rate for "Double
\* Core" at 35 mm plus the differential.
C5_BoundaryContinuity ==
    HdfAt36 => out.value = DoubleCoreAt35 + Differential

\* C5 amended: the rate for "Core + HDF" at 36 mm is the rate for "Double
\* Core" at 35 mm, less the "Double Core" surcharge that is charged at 35 mm
\* and not at 36 mm, plus one millimetre of thickness surcharge, plus the
\* differential.
C5_BoundaryStep ==
    HdfAt36 =>
        out.value = DoubleCoreAt35 - CORE_SURCHARGES["Double Core"]
                    + CONSTANTS_["THICKNESS_SURCHARGE_RATE"] + Differential

\* the 36 mm "Core + HDF" rate of Hardwood rails with Ecolax Board filler
C5_Witness ==
    HdfAt36 /\ req.rails = "Hardwood" /\ req.filler = "Ecolax Board"

\* C6 as stated: the sample door has skeleton cost 730.64.
C6_SampleSkeleton73064 ==
    (req = SampleRequest /\ out # Pending) =>
        (~out.raised /\ out.skeleton_cost = 73064)

\* C6 amended: the sample door (2133.6 x 914.4 x 40 mm, Hardwood rails,
\* Ecolax Board filler, "Core + HDF") has skeleton cost 3622.50: a
\* single-face area of 21.0 sqft times a rate of 172.50 per sqft.
C6_SampleSkeleton362250 ==
    (req = SampleRequest /\ out # Pending) =>
        /\ ~out.raised
        /\ out.skeleton_cost = 362250
        /\ calculate_area_sqft(req.L_mm, req.W_mm, 1) = 210000
        /\ get_psf_rate(req.rails, req.filler, req.T_mm, req.core_option).value = 17250
        /\ 2100 * 1725 = 10 * out.skeleton_cost

\* the sample call has returned
C6_Witness ==
    req = SampleRequest /\ Returned("calculate_total_price")

\* C7: a call with the same arguments as an earlier call has the same
\* outcome (the same return value or the same error, and the same lines
\* printed), whatever calls were made in between.
C7_SameCallSameOutcome ==
    (saved # None /\ out # Pending /\ req = saved.req) =>
        (out = saved.out /\ diag = saved.diag)

\* a quote repeated after MaxBetween later calls
C7_Witness ==
    /\ saved # None /\ out # Pending /\ req = saved.req
    /\ saved.between = MaxBetween
    /\ req.fn = "calculate_total_price" /\ ~out.raised /\ diag # <<>>

\* the rate before rounding, in thousandths of a rupee, without the core term
RateBeforeCore ==
    MATERIAL_BASE_RATES[<<req.rails, req.filler>>] * MmScale
    + (IF req.T_mm > CONSTANTS_["BASE_THICKNESS_MM"] * MmScale
       THEN (req.T_mm - CONSTANTS_["BASE_THICKNESS_MM"] * MmScale)
            * CONSTANTS_["THICKNESS_SURCHARGE_RATE"]
       ELSE 0)

\* round(x, 2) of a rate held in thousandths of a rupee, in paise
RoundRate(x) == RoundHalfEven(x \div MmScale, x % MmScale, MmScale)

\* C8: every positive thickness lies in exactly one of the tiers <= 35 and
\* >= 36, so a "Core + HDF" door is always charged either the direct
\* surcharge (first tier) or the differential surcharge (second tier).
C8_HdfAlwaysSurcharged ==
    (Returned("get_psf_rate") /\ req.core_option = "Core + HDF" /\ req.T_mm > 0) =>
        \/ /\ req.T_mm <= 35 * MmScale
           /\ out.value = RoundRate(RateBeforeCore + CORE_SURCHARGES["Core + HDF"] * MmScale)
        \/ /\ req.T_mm >= 36 * MmScale
           /\ out.value = RoundRate(RateBeforeCore + Differential * MmScale)

\* what the request says about a keyed add-on: the rate ADDON_SQFT_RATES
\* lists for the option, 0 when it lists none
ListedRate(feature, option) ==
    CASE feature = "coating"
         /\ option = <<"Resin", " ", "Coated", " ", "(", "Both", " ", "Sides", ")">> -> 18000
      [] feature = "grooving" /\ option = <<"Both", " ", "Sides">> -> 2200
      [] feature = "routing" /\ option = <<"One", " ", " ", "Side">> -> 1500
      [] OTHER -> 0

\* the key the code reports for the unlisted option of the input set
UnlistedKey(feature, option) ==
    CASE feature = "coating" /\ option = <<"Matte">> -> <<"Coating", "_", "Matte">>
      [] OTHER -> <<>>

\* the add-on cost of the same door without add-on k
WithoutAddon(k) ==
    calculate_addon_cost(req.L_mm, req.W_mm, req.T_mm, out.skeleton_cost,
                         [j \in DOMAIN req.add_ons \ {k} |-> req.add_ons[j]])

\* C9: a keyed add-on (coating, grooving, routing) whose option is not
\* "none" and whose key has no rate adds exactly 0, its key is printed on the
\* diagnostic channel, no error is raised, and the other add-ons count in
\* full; one whose key has a rate adds calculate_area_sqft(L, W, 1) * rate.
C9_KeyedAddon ==
    (req.fn = "calculate_total_price" /\ out # Pending /\ KnownPair) =>
        /\ ~out.raised
        /\ \A k \in {"coating", "grooving", "routing"} \cap DOMAIN req.add_ons :
              Lower(req.add_ons[k]) # <<"none">> =>
                 LET rate == ListedRate(k, req.add_ons[k])
                     rest == WithoutAddon(k)
                     area == calculate_area_sqft(req.L_mm, req.W_mm, 1)
                 IN  IF rate = 0
                     THEN /\ out.addon_cost = rest.value
                          /\ \E i \in 1..Len(diag) : diag[i] = UnlistedKey(k, req.add_ons[k])
                     ELSE out.addon_cost =
                              RoundMoney(AddMoney(rest.unrounded, MulDiv(area, rate, AreaScale)))

\* an unlisted coating together with a listed grooving and a listed routing
C9_Witness ==
    /\ Returned("calculate_total_price")
    /\ DOMAIN req.add_ons = {"coating", "grooving", "routing"}
    /\ req.add_ons["coating"] = <<"Matte">>
    /\ req.add_ons["routing"] # <<"None">>
    /\ diag = << <<"Coating", "_", "Matte">> >>
    /\ out.addon_cost > 0

\* C10: at or below the base thickness the thickness surcharge is 0 and the
\* rate is the base rate plus the core surcharge alone; above it the
\* surcharge is (thickness - base) * THICKNESS_SURCHARGE_RATE, never negative.
C10_ThicknessSurcharge ==
    Returned("get_psf_rate") =>
        /\ RateBeforeCore >= MATERIAL_BASE_RATES[<<req.rails, req.filler>>] * MmScale
        /\ out.value = RoundRate(RateBeforeCore
                                 + core_surcharge(req.T_mm, req.core_option) * MmScale)
        /\ req.T_mm <= CONSTANTS_["BASE_THICKNESS_MM"] * MmScale =>
              out.value = MATERIAL_BASE_RATES[<<req.rails, req.filler>>]
                          + (IF req.core_option \in DOMAIN CORE_SURCHARGES
                             THEN CORE_SURCHARGES[req.core_option] ELSE 0)

\* a rate for a door thinner than the base thickness, with a core surcharge
C10_Witness ==
    /\ Returned("get_psf_rate")
    /\ req.T_mm < CONSTANTS_["BASE_THICKNESS_MM"] * MmScale
    /\ req.core_option = "Core + HDF"

\* what the two tiers charge for a core option, in paise: the listed
\* surcharge in full up to 35 mm; from 36 mm on only the differential, and
\* only for "Core + HDF"
TierCharge(T_mm, core_option) ==
    IF T_mm <= 35 * MmScale
    THEN IF core_option \in {"Double Core", "Core + HDF"}
         THEN CORE_SURCHARGES[core_option] ELSE 0
    ELSE IF core_option = "Core + HDF" THEN Differential ELSE 0

\* C11: at thickness <= 35 the rate includes CORE_SURCHARGES[core_option] in
\* full for "Double Core" and for "Core + HDF" and nothing for "None"; at
\* thickness >= 36 "Double Core" adds nothing and "Core + HDF" adds only
\* CORE_SURCHARGES["Core + HDF"] - CORE_SURCHARGES["Double Core"].
C11_CoreSurchargeByTier ==
    (Returned("get_psf_rate")
     /\ (req.T_mm <= 35 * MmScale \/ req.T_mm >= 36 * MmScale)) =>
        out.value = RoundRate(RateBeforeCore
                              + TierCharge(req.T_mm, req.core_option) * MmScale)

\* a "Double Core" rate in the second tier, equal to the rate of "None" there
C11_Witness ==
    /\ Returned("get_psf_rate")
    /\ req.T_mm >= 36 * MmScale
    /\ req.core_option = "Double Core"
    /\ out.value = RoundRate(RateBeforeCore)
    /\ out.value > MATERIAL_BASE_RATES[<<req.rails, req.filler>>]

\* the add-ons in the order the code evaluates them
AddonKeys == <<"double_leaf", "vision_hole", "edge_banding", "coating", "grooving", "routing">>

\* whether the request selects a flag add-on that is off (double leaf, vision
\* hole) or on (edge banding) when the request does not mention it
FlagSelected(k) ==
    IF k \in DOMAIN req.add_ons THEN Lower(req.add_ons[k]) = <<"yes">>
    ELSE k = "edge_banding"

\* the fee of the first bracket of VISION_HOLE_FEES containing T_mm, or 0
BracketFee(T_mm) ==
    LET hits == {i \in 1..Len(VISION_HOLE_FEES) :
                    /\ VISION_HOLE_FEES[i].T_min * MmScale <= T_mm
                    /\ T_mm <= VISION_HOLE_FEES[i].T_max * MmScale}
    IN  IF hits = {} THEN 0
        ELSE VISION_HOLE_FEES[CHOOSE i \in hits : \A j \in hits : i <= j].F_VH

\* what add-on k of the request contributes by the rules of the claim, as
\* an unrounded amount: a function of the door, the skeleton cost and the
\* add-on's own option only
Contribution(k) ==
    CASE k = "double_leaf" ->
            IF FlagSelected(k)
            THEN LET m == MulDiv(out.skeleton_cost, CONSTANTS_["DOUBLE_LEAF_FACTOR"], MoneyScale)
                 IN  Money(m[1], m[2] * (AreaScale \div MoneyScale))
            ELSE Money(0, 0)
      [] k = "vision_hole" ->
            IF FlagSelected(k) THEN Money(BracketFee(req.T_mm), 0) ELSE Money(0, 0)
      [] k = "edge_banding" ->
            IF FlagSelected(k)
            THEN LET m == MulDiv(calculate_edge_area_sqft(req.L_mm, req.W_mm, req.T_mm),
                                 CONSTANTS_["EDGE_BANDING_RATE"], AreaScale)
                 IN  Money(m[1], m[2])
            ELSE Money(0, 0)
      [] OTHER ->
            IF k \in DOMAIN req.add_ons /\ Lower(req.add_ons[k]) # <<"none">>
            THEN LET m == MulDiv(calculate_area_sqft(req.L_mm, req.W_mm, 1),
                                 ListedRate(k, req.add_ons[k]), AreaScale)
                 IN  Money(m[1], m[2])
            ELSE Money(0, 0)

\* the orders of evaluation compared: the code's order, its reverse, and
\* every rotation of the two
Rotate(s, n) == [i \in 1..Len(s) |-> s[((i + n - 1) % Len(s)) + 1]]

Reverse(s) == [i \in 1..Len(s) |-> s[Len(s) + 1 - i]]

Orders ==
    {Rotate(AddonKeys, n) : n \in 0..Len(AddonKeys) - 1}
    \cup {Rotate(Reverse(AddonKeys), n) : n \in 0..Len(AddonKeys) - 1}

\* the contributions c added up from 0 in the given order
RECURSIVE SumIn(_, _, _)
SumIn(order, c, total) ==
    IF order = <<>> THEN total
    ELSE SumIn(Tail(order), c, AddMoney(total, c[Head(order)]))

\* the request's add-ons with add-on k deselected
Deselect(k) ==
    IF k = "edge_banding" THEN ("edge_banding" :> <<"no">>) @@ req.add_ons
    ELSE [j \in DOMAIN req.add_ons \ {k} |-> req.add_ons[j]]

\* the unrounded add-on cost of the same door with the given add-ons
AddonTotal(add_ons) ==
    calculate_addon_cost(req.L_mm, req.W_mm, req.T_mm, out.skeleton_cost, add_ons).unrounded

AddonSaying(k, v) ==
    calculate_addon_cost(req.L_mm, req.W_mm, req.T_mm, out.skeleton_cost,
                         (k :> v) @@ req.add_ons)

\* edge area * EDGE_BANDING_RATE of the door of the request, unrounded
EdgeCharge ==
    LET m == MulDiv(calculate_edge_area_sqft(req.L_mm, req.W_mm, req.T_mm),
                    CONSTANTS_["EDGE_BANDING_RATE"], AreaScale)
    IN  Money(m[1], m[2])

\* C13: a quote whose add-ons do not mention edge banding is charged
\* edge area * EDGE_BANDING_RATE exactly as if edge banding were explicitly
\* selected, and only an explicit deselection removes the charge; double
\* leaf and vision hole contribute nothing when the add-ons do not mention
\* them.
C13_EdgeBandingByDefault ==
    Returned("calculate_total_price") =>
        /\ "edge_banding" \notin DOMAIN req.add_ons =>
              /\ out.addon_cost = AddonSaying("edge_banding", <<"yes">>).value
              /\ out.addon_cost =
                    RoundMoney(AddMoney(AddonSaying("edge_banding", <<"no">>).unrounded,
                                        EdgeCharge))
              /\ EdgeCharge # Money(0, 0)
        /\ ("edge_banding" \in DOMAIN req.add_ons /\ req.add_ons["edge_banding"] = <<"no">>) =>
              AddonSaying("edge_banding", <<"yes">>).unrounded =
                  AddMoney(AddonTotal(req.add_ons), EdgeCharge)
        /\ \A k \in {"double_leaf", "vision_hole"} \ DOMAIN req.add_ons :
              /\ out.addon_cost = AddonSaying(k, <<"no">>).value
              /\ Contribution(k) = Money(0, 0)

\* a quote with no add-ons at all: its add-on cost is the edge banding charge
C13_Witness ==
    /\ Returned("calculate_total_price")
    /\ DOMAIN req.add_ons = {}
    /\ out.addon_cost = RoundMoney(EdgeCharge)
    /\ out.addon_cost > 0

====
